---- MODULE Spec2Model ----
(***************************************************************************)
(* Verification model of smart-job-finder: the posting store               *)
(* (src/src/database/db_manager.py), the score combiner                    *)
(* (src/src/matching/job_matcher.py) and their collaborators.              *)
(*                                                                         *)
(* Python values.  A value that may be None or a str is a record           *)
(* [none, words]: PyNone, or PyStr(w) where w is the text as a sequence of *)
(* lower-case words (the empty sequence is the empty string "").           *)
(* Scores are exact rationals; a percentage rounded to two decimals is an  *)
(* integer number of hundredths (4167 stands for 41.67).                   *)
(* The SQLite file is assumed reachable and healthy: connection and I/O    *)
(* failures of the database are outside the model.                         *)
(***************************************************************************)
EXTENDS Integers, Sequences, FiniteSets, TLC

VARIABLES
    db,         \* rows of table jobs, in rowid order (committed content)
    call,       \* the last store call: [op, job_id, new_status, value]
    cpc,        \* concurrent insert_job callers: position in insert_job
    cjob,       \* concurrent callers: the job_data argument
    crowcount,  \* concurrent callers: cursor.rowcount after execute
    cret,       \* concurrent callers: return value
    cview,      \* concurrent callers: the table as the caller's open
                \* transaction sees it (its own uncommitted write included)
    lock,       \* connection holding SQLite's write lock, 0 when free
    nlp_loaded, \* ResumeParser.nlp is a loaded spaCy model (not None)
    parsed_resume, \* the resume_parsed_data argument of match_job_to_resume
    job,        \* the job_data argument: a row read back from table jobs
    raw,        \* cosine similarity the embedder yields for the two texts
    mpc,        \* match_job_to_resume: "ready" before the call, then
                \* "returned" or "raised"
    result,     \* the dict match_job_to_resume returned
    frame,      \* its local variables when it returned
    calls,      \* collaborator methods it called
    settings,   \* config.settings.settings: the weights and the threshold
    spc,        \* search_jobs: "idle", "request" (an attempt is due), "done"
    p,          \* search_jobs: the page being fetched
    num_pages,  \* search_jobs: the num_pages argument (page is 1)
    attempt,    \* _make_request: attempt of the for loop, from 0
    retry_delay, \* _make_request: seconds slept before the next attempt
    trylog,     \* _make_request: [outcome, slept] of every request sent by
                \* the current (or last) call
    mret,       \* _make_request: what the last finished call returned
    pages,      \* search_jobs: [page, response, requests] of every page
                \* whose _make_request call has returned
    all_jobs,   \* search_jobs: postings collected so far
    sret,       \* search_jobs: the returned list
    sem,        \* the last SemanticMatcher call: [op, text1, text2, value,
                \* encoded]
    raws,       \* scoring loop: cosine similarity of the resume text and
                \* each stored description
    cur,        \* scoring loop: rowid of the posting being scored, 0 if none
    scores,     \* scoring loop: match result kept for each scored posting
    jobs_data,  \* st.session_state.jobs_data: stored rows merged with scores
    selected_resume_file_name, \* st.session_state.selected_resume_file_name
    ev,         \* the last event the app script handled and how it ended
    last_parse, \* what the most recent successful parse_resume call of the
                \* session returned, None before any
    rerun       \* a second match_job_to_resume run: what was changed after
                \* the first run, and the first run's outcome and result

storeVars == <<db, call>>
concVars == <<cpc, cjob, crowcount, cret, cview, lock>>
matchVars == <<nlp_loaded, parsed_resume, job, raw, mpc, result, frame, calls>>
apiVars == <<spc, p, num_pages, attempt, retry_delay, trylog, mret, pages,
             all_jobs, sret>>
semVars == <<sem>>
loopVars == <<raws, cur, scores>>
moreVars == <<settings, apiVars, semVars, loopVars>>
appVars == <<jobs_data, selected_resume_file_name, ev, last_parse, rerun>>

----------------------------------------------------------------------------
(* Python values *)

PyNone == [none |-> TRUE, words |-> <<>>]
PyStr(w) == [none |-> FALSE, words |-> w]

\* Python truthiness of None / str: `not x` is True for None and for "".
Truthy(x) == ~x.none /\ x.words # <<>>

\* dict.get(key): the value, or None when the key is missing.
DictGet(d, key) == IF key \in DOMAIN d THEN d[key] ELSE PyNone

Range(s) == {s[i] : i \in 1..Len(s)}

\* class Settings: KEYWORD_WEIGHT = 0.5, SEMANTIC_WEIGHT = 0.5,
\* SEMANTIC_THRESHOLD = 0.75, as exact fractions.
DefaultSettings ==
    [KEYWORD_WEIGHT |-> [num |-> 1, den |-> 2],
     SEMANTIC_WEIGHT |-> [num |-> 1, den |-> 2],
     SEMANTIC_THRESHOLD |-> [num |-> 3, den |-> 4]]

----------------------------------------------------------------------------
(* Bounds and input sets of the store *)

JobIds == {"j1", "j2"}

\* The status vocabulary offered by the UI.
status_options == {"new", "seen", "applied", "interviewing", "rejected"}

\* Statuses a caller may pass to update_job_status: the vocabulary and one
\* string outside it.
StatusInputs == status_options \cup {"archived"}

TitleInputs == {PyNone, PyStr(<<"engineer">>)}
DescriptionInputs == {PyNone, PyStr(<<>>), PyStr(<<"design", "testing">>)}

\* job_data dictionaries handed to insert_job: with a job_id, with an empty
\* job_id, and without the key.
JobDataInputs ==
    {[job_id |-> PyStr(<<i>>), job_title |-> t, job_description |-> d] :
        i \in JobIds, t \in TitleInputs, d \in DescriptionInputs}
    \cup {[job_id |-> PyStr(<<>>), job_title |-> t, job_description |-> d] :
        t \in TitleInputs, d \in DescriptionInputs}
    \cup {[job_title |-> t, job_description |-> d] :
        t \in TitleInputs, d \in DescriptionInputs}

IdInputs == {PyStr(<<i>>) : i \in JobIds}

----------------------------------------------------------------------------
(* Table jobs: CREATE TABLE, INSERT OR IGNORE, UPDATE, SELECT *)

\* Column default of a new row.
DefaultStatus == "new"

HasRow(table, id) == \E i \in 1..Len(table) : table[i].job_id = id

RowOf(table, id) == table[CHOOSE i \in 1..Len(table) : table[i].job_id = id]

\* The row INSERT binds from job_data; status takes the column default.
NewRow(job_data) ==
    [job_id |-> DictGet(job_data, "job_id"),
     job_title |-> DictGet(job_data, "job_title"),
     job_description |-> DictGet(job_data, "job_description"),
     status |-> DefaultStatus]

\* INSERT OR REPLACE: a conflicting row is deleted and the new row written.
ExecInsertOrReplace(table, row) ==
    [table |-> Append(SelectSeq(table, LAMBDA r : r.job_id # row.job_id), row),
     rowcount |-> 1]

\* INSERT OR IGNORE on PRIMARY KEY job_id: a conflicting row is skipped.
\* Gives the table after the statement and cursor.rowcount, the number of
\* rows written.
ExecInsertOrIgnore(table, row) ==
    IF HasRow(table, row.job_id)
    THEN [table |-> table, rowcount |-> 0]
    ELSE [table |-> Append(table, row), rowcount |-> 1]

\* A return that ignores rowcount.
InsertReturnsAlways(rowcount) == TRUE

\* insert_job's return after execute: True iff a row was written.
InsertReturns(rowcount) == rowcount > 0

\* An UPDATE without its WHERE clause.
UpdateStatusEveryRow(table, id, new_status) ==
    [i \in 1..Len(table) |-> [table[i] EXCEPT !.status = new_status]]

\* UPDATE jobs SET status = ? WHERE job_id = ?
UpdateStatus(table, id, new_status) ==
    [i \in 1..Len(table) |->
        IF table[i].job_id = id
        THEN [table[i] EXCEPT !.status = new_status]
        ELSE table[i]]

\* cursor.rowcount of the UPDATE: rows matched by WHERE.
UpdateRowcount(table, id) ==
    Cardinality({i \in 1..Len(table) : table[i].job_id = id})

\* A return that ignores rowcount.
UpdateReturnsAlways(rowcount) == TRUE

\* update_job_status's return after commit: True iff a row matched.
UpdateReturns(rowcount) == rowcount > 0

----------------------------------------------------------------------------
(* DBManager, one caller at a time *)

Called(op, job_id, new_status, value) ==
    [op |-> op, job_id |-> job_id, new_status |-> new_status, value |-> value]

\* insert_job(job_data)
InsertJob(job_data) ==
    LET job_id == DictGet(job_data, "job_id") IN
    /\ IF ~Truthy(job_id)
       THEN /\ db' = db
            /\ call' = Called("insert_job", job_id, "", FALSE)
       ELSE LET done == ExecInsertOrIgnore(db, NewRow(job_data)) IN
            /\ db' = done.table
            /\ call' = Called("insert_job", job_id, "",
                              InsertReturns(done.rowcount))
    /\ UNCHANGED <<concVars, matchVars, moreVars, appVars>>

\* update_job_status(job_id, new_status)
UpdateJobStatus(job_id, new_status) ==
    /\ db' = UpdateStatus(db, job_id, new_status)
    /\ call' = Called("update_job_status", job_id, new_status,
                      UpdateReturns(UpdateRowcount(db, job_id)))
    /\ UNCHANGED <<concVars, matchVars, moreVars, appVars>>

\* get_all_jobs()
GetAllJobs ==
    /\ call' = Called("get_all_jobs", PyNone, "", db)
    /\ UNCHANGED <<db, concVars, matchVars, moreVars, appVars>>

\* get_job_by_id(job_id): the row as a dict, or None
GetJobById(job_id) ==
    /\ call' = Called("get_job_by_id", job_id, "",
                      IF HasRow(db, job_id) THEN RowOf(db, job_id) ELSE PyNone)
    /\ UNCHANGED <<db, concVars, matchVars, moreVars, appVars>>

\* No search_jobs call.
ApiIdle ==
    /\ spc = "idle" /\ p = 0 /\ num_pages = 0 /\ attempt = 0
    /\ retry_delay = 0 /\ trylog = <<>> /\ mret = "none yet"
    /\ pages = <<>> /\ all_jobs = <<>> /\ sret = <<>>

\* No SemanticMatcher call.
SemIdle == sem = [op |-> "none"]

\* No scoring loop.
LoopIdle == raws = <<>> /\ cur = 0 /\ scores = <<>>

\* A fresh app session (the session state initialization), no event
\* handled, and no second matcher run.
AppIdle ==
    /\ jobs_data = <<>>
    /\ selected_resume_file_name = "None selected"
    /\ ev = [op |-> "none"]
    /\ last_parse = PyNone
    /\ rerun = [what |-> "none"]

\* The shipped settings, and nothing running beside the part under study.
MoreIdle ==
    settings = DefaultSettings /\ ApiIdle /\ SemIdle /\ LoopIdle /\ AppIdle

\* No match_job_to_resume call.
MatchIdle ==
    /\ nlp_loaded = TRUE /\ parsed_resume = PyNone /\ job = PyNone
    /\ raw = <<>> /\ mpc = "idle" /\ result = <<>> /\ frame = <<>>
    /\ calls = {}

\* No concurrent callers.
ConcIdle ==
    /\ cpc = <<>> /\ cjob = <<>> /\ crowcount = <<>>
    /\ cret = <<>> /\ cview = <<>> /\ lock = 0

\* __init__: create_tables leaves an empty table on a fresh database.
InitStore ==
    /\ db = <<>>
    /\ call = Called("init", PyNone, "", FALSE)
    /\ ConcIdle
    /\ MatchIdle
    /\ MoreIdle

NextStore ==
    \/ \E job_data \in JobDataInputs : InsertJob(job_data)
    \/ \E job_id \in IdInputs, s \in StatusInputs : UpdateJobStatus(job_id, s)
    \/ GetAllJobs
    \/ \E job_id \in IdInputs : GetJobById(job_id)

vars == <<db, call, cpc, cjob, crowcount, cret, cview, lock,
          nlp_loaded, parsed_resume, job, raw, mpc, result, frame, calls,
          settings, spc, p, num_pages, attempt, retry_delay, trylog, mret,
          pages, all_jobs, sret, sem, raws, cur, scores, jobs_data,
          selected_resume_file_name, ev, last_parse, rerun>>

SpecStore == InitStore /\ [][NextStore]_vars

----------------------------------------------------------------------------
(* insert_job called from several threads at once.  Every call opens its   *)
(* own connection (_get_connection); the INSERT starts a write transaction *)
(* on it, which SQLite grants to one connection at a time, and the         *)
(* transaction ends at conn.commit() or at the exit of the with block.     *)
(* The commit of the connection that holds the write lock succeeds: no     *)
(* reader keeps a shared lock on the file for the whole busy timeout.      *)

NumCallers == 3
Callers == 1..NumCallers

ConcJobData ==
    {[job_id |-> PyStr(<<i>>), job_title |-> t, job_description |-> PyNone] :
        i \in JobIds, t \in {PyNone, PyStr(<<"engineer">>)}}

\* cursor.execute(INSERT OR IGNORE ...) on a free database: the connection
\* takes the write lock and runs the statement on the committed table.
CExecute(c) ==
    /\ cpc[c] = "start"
    /\ Truthy(DictGet(cjob[c], "job_id"))
    /\ lock = 0
    /\ LET done == ExecInsertOrIgnore(db, NewRow(cjob[c])) IN
        /\ cview' = [cview EXCEPT ![c] = done.table]
        /\ crowcount' = [crowcount EXCEPT ![c] = done.rowcount]
    /\ lock' = c
    /\ cpc' = [cpc EXCEPT ![c] = "executed"]
    /\ UNCHANGED <<db, call, cjob, cret, matchVars, moreVars, appVars>>

\* cursor.execute while another connection holds the write lock and the
\* busy timeout runs out: sqlite3.OperationalError, caught, return False.
\* (A caller that keeps waiting just takes no step.)
CLockedOut(c) ==
    /\ cpc[c] = "start"
    /\ lock # 0
    /\ lock # c
    /\ cret' = [cret EXCEPT ![c] = FALSE]
    /\ cpc' = [cpc EXCEPT ![c] = "done"]
    /\ UNCHANGED <<db, call, cjob, crowcount, cview, lock, matchVars, moreVars, appVars>>

\* rowcount > 0: conn.commit() publishes the row, return True.
\* Otherwise return False; leaving the with block commits the empty
\* transaction.  Both release the write lock.
CFinish(c) ==
    /\ cpc[c] = "executed"
    /\ db' = cview[c]
    /\ lock' = 0
    /\ cret' = [cret EXCEPT ![c] = InsertReturns(crowcount[c])]
    /\ cpc' = [cpc EXCEPT ![c] = "done"]
    /\ UNCHANGED <<call, cjob, crowcount, cview, matchVars, moreVars, appVars>>

InitConc ==
    /\ db = <<>>
    /\ call = Called("init", PyNone, "", FALSE)
    /\ cjob \in [Callers -> ConcJobData]
    /\ cpc = [c \in Callers |-> "start"]
    /\ crowcount = [c \in Callers |-> -1]
    /\ cret = [c \in Callers |-> FALSE]
    /\ cview = [c \in Callers |-> <<>>]
    /\ lock = 0
    /\ MatchIdle
    /\ MoreIdle

NextConc ==
    \/ \E c \in Callers : CExecute(c)
    \/ \E c \in Callers : CLockedOut(c)
    \/ \E c \in Callers : CFinish(c)

SpecConc == InitConc /\ [][NextConc]_vars

----------------------------------------------------------------------------
(* Texts.  A text is a sequence of words separated by blanks; the words of *)
(* the model are three entries of common_keywords (one written with a      *)
(* capital), of which "design" is also an entry of common_skills, and a    *)
(* stop word.                                                              *)

Words == {"design", "Analysis", "testing", "the"}

MaxWords == 2

Texts == UNION {[1..n -> Words] : n \in 0..MaxWords}

\* str.lower() of one word.
Lower(w) == IF w = "Analysis" THEN "analysis" ELSE w

\* str.lower() of a text.
LowerText(t) == [i \in 1..Len(t) |-> Lower(t[i])]

\* token.is_stop of spaCy's English model, on the words of the model.
IsStop(w) == w = "the"

\* token.is_alpha: every word of the model is made of letters only.
IsAlpha(w) == Lower(w) \in {"design", "analysis", "testing", "the"}

\* The entries of self.common_keywords_lower the words can spell, in list
\* order.
common_keywords_lower == <<"design", "analysis", "testing">>

\* The entries of self.common_skills_lower the words can spell.
common_skills_lower == <<"design">>

\* sorted(list(set(found))) for found drawn from the lexicons: the
\* alphabetical order of the entries.
Alphabetical == <<"analysis", "design", "testing">>

SortedList(S) == SelectSeq(Alphabetical, LAMBDA k : k \in S)

\* Number of characters of a word: len(token.text).
WordLen(w) == CASE w = "the" -> 3
                [] w = "design" -> 6
                [] w = "testing" -> 7
                [] OTHER -> 8

\* extract_skills(text): lexicon entries found between word boundaries in
\* text.lower(), de-duplicated and sorted.
ExtractSkills(text) ==
    LET text_lower == LowerText(text)
        found_skills == SelectSeq(common_skills_lower,
                            LAMBDA skill : skill \in Range(text_lower))
    IN SortedList(Range(found_skills))

\* extract_general_keywords(text): [] when the spaCy model is missing;
\* otherwise the lexicon entries among the alphabetic, non-stop tokens longer
\* than two characters of text.lower(), de-duplicated and sorted.  (Inside
\* an alphabetic token the search for \bkeyword\b succeeds only when the
\* token is the keyword.)
ExtractGeneralKeywords(text, loaded) ==
    IF ~loaded THEN <<>>
    ELSE LET doc == LowerText(text)
             tokens == SelectSeq(doc, LAMBDA w :
                           IsAlpha(w) /\ ~IsStop(w) /\ WordLen(w) > 2)
             found_keywords == SelectSeq(common_keywords_lower,
                                   LAMBDA keyword : keyword \in Range(tokens))
         IN SortedList(Range(found_keywords))

\* parse_resume on a readable document with the given text.
ParseResume(resume_text, loaded) ==
    IF resume_text = <<>>
    THEN [text |-> PyStr(<<>>), skills |-> <<>>, keywords |-> <<>>]
    ELSE [text |-> PyStr(resume_text),
          skills |-> ExtractSkills(resume_text),
          keywords |-> ExtractGeneralKeywords(resume_text, loaded)]

----------------------------------------------------------------------------
(* Scores.  A float is modelled by the exact rational [num, den], den > 0; *)
(* round(x, 2) by the number of hundredths nearest to x, ties to even.     *)

Rat(n, d) == [num |-> n, den |-> d]
RAdd(x, y) == Rat(x.num * y.den + y.num * x.den, x.den * y.den)
RMul(x, y) == Rat(x.num * y.num, x.den * y.den)
REq(x, y) == x.num * y.den = y.num * x.den
RLeq(x, y) == x.num * y.den <= y.num * x.den

\* round(x, 2), in hundredths.
Round2(x) ==
    LET n == x.num * 100
        q == n \div x.den
        twice == 2 * (n % x.den)
    IN IF twice < x.den THEN q
       ELSE IF twice > x.den THEN q + 1
       ELSE IF q % 2 = 0 THEN q ELSE q + 1

\* settings.KEYWORD_WEIGHT = 0.5, settings.SEMANTIC_WEIGHT = 0.5
KEYWORD_WEIGHT == DefaultSettings.KEYWORD_WEIGHT
SEMANTIC_WEIGHT == DefaultSettings.SEMANTIC_WEIGHT

\* Cosine similarities the embedder may yield: k / RawScale in [-1, 1].
RawScale == 2
RawValues == {Rat(r, RawScale) : r \in (0 - RawScale)..RawScale}

\* Overlap divided by the smaller set.
OverlapCoefficient(resume_keywords, job_keywords) ==
    IF resume_keywords = <<>> \/ job_keywords = <<>> THEN Rat(0, 1)
    ELSE LET resume_set == Range(resume_keywords)
             job_set == Range(job_keywords)
             intersection == Cardinality(resume_set \cap job_set)
             smaller == IF Cardinality(resume_set) <= Cardinality(job_set)
                        THEN Cardinality(resume_set)
                        ELSE Cardinality(job_set)
         IN Rat(intersection, smaller)

\* Overlap divided by the summed list lengths.
OverlapOverLengths(resume_keywords, job_keywords) ==
    IF resume_keywords = <<>> \/ job_keywords = <<>> THEN Rat(0, 1)
    ELSE LET resume_set == Range(resume_keywords)
             job_set == Range(job_keywords)
             intersection == Cardinality(resume_set \cap job_set)
         IN Rat(intersection, Len(resume_keywords) + Len(job_keywords))

\* _calculate_keyword_overlap_score(resume_keywords, job_keywords)
_calculate_keyword_overlap_score(resume_keywords, job_keywords) ==
    IF resume_keywords = <<>> \/ job_keywords = <<>> THEN Rat(0, 1)
    ELSE LET resume_set == Range(resume_keywords)
             job_set == Range(job_keywords)
             intersection == Cardinality(resume_set \cap job_set)
             union == Cardinality(resume_set \cup job_set)
         IN IF union = 0 THEN Rat(0, 1) ELSE Rat(intersection, union)

\* Any text, the empty one too, handed to the model.
EmbedAnything(text) == text

\* get_embedding(text): None for an empty text, else the model's vector,
\* which the model identifies with the text it encodes.
get_embedding(text) == IF ~Truthy(text) THEN PyNone ELSE text

\* calculate_similarity(embedding1, embedding2); cos is what util.cos_sim
\* yields for the two vectors.
calculate_similarity(embedding1, embedding2, cos) ==
    IF embedding1 = PyNone \/ embedding2 = PyNone THEN Rat(0, 1) ELSE cos

\* get_semantic_score(text1, text2)
get_semantic_score(text1, text2, cos) ==
    IF ~Truthy(text1) \/ ~Truthy(text2) THEN Rat(0, 1)
    ELSE calculate_similarity(get_embedding(text1), get_embedding(text2), cos)

\* The semantic score used as it comes.
NotNormalized(semantic_score) == semantic_score

\* normalized_semantic_score = (semantic_score + 1) / 2
NormalizeSemantic(semantic_score) ==
    RMul(RAdd(semantic_score, Rat(1, 1)), Rat(1, 2))

\* The two scores added without their weights.
UnweightedScore(keyword_score, normalized_semantic_score) ==
    RAdd(keyword_score, normalized_semantic_score)

\* final_score before rounding:
\* keyword_score * settings.KEYWORD_WEIGHT
\*     + normalized_semantic_score * settings.SEMANTIC_WEIGHT
WeightedScore(keyword_score, normalized_semantic_score) ==
    RAdd(RMul(keyword_score, settings.KEYWORD_WEIGHT),
         RMul(normalized_semantic_score, settings.SEMANTIC_WEIGHT))

\* The penalty of the commented-out lines applied: final_score *= 0.5 when
\* normalized_semantic_score < settings.SEMANTIC_THRESHOLD.
HalvedBelowThreshold(final_score, normalized_semantic_score) ==
    IF ~RLeq(settings.SEMANTIC_THRESHOLD, normalized_semantic_score)
    THEN RMul(final_score, Rat(1, 2))
    ELSE final_score

\* final_score after the "Optional: Apply thresholding" step, whose two
\* statements are comments: the score goes on as it is.
AfterThresholding(final_score, normalized_semantic_score) == final_score

\* x * 100 cut down to a whole percentage, in hundredths.
PercentWhole(x) == 100 * ((x.num * 100) \div x.den)

\* round(x * 100, 2): a percentage in hundredths.
Percent(x) == Round2(RMul(x, Rat(100, 1)))

\* Every resume keyword reported as matched.
AllResumeKeywords(resume_keywords, job_keywords) == Range(resume_keywords)

\* list(set(resume_keywords).intersection(set(job_description_keywords)))
MatchedKeywords(resume_keywords, job_keywords) ==
    Range(resume_keywords) \cap Range(job_keywords)

\* The job's keywords appended to the caller's resume keywords.
ResumeExtended(resume, job_keywords) ==
    [resume EXCEPT !.keywords = @ \o job_keywords]

\* The caller's resume dict after a scored call: the method reads it with
\* .get and copies its keyword list into a set, and writes to neither.
ResumeAfterMatch(resume, job_keywords) == resume

----------------------------------------------------------------------------
(* JobMatcher.match_job_to_resume(resume_parsed_data, job_data) *)

\* The dict returned when resume text or job description is empty.
EmptyResult ==
    [final_score |-> 0, keyword_score |-> 0, semantic_score |-> 0]

\* match_job_to_resume(resume_parsed_data, job_data), cos being the cosine
\* the embedder yields for the two texts and loaded whether the parser has
\* its spaCy model: how the call ends (mpc), what it returns or raises
\* (result), its locals (frame), the collaborator methods it called (calls)
\* and the caller's resume dict afterwards (resume).
match_job_to_resume(resume_parsed_data, job_data, cos, loaded) ==
    LET resume_text == DictGet(resume_parsed_data, "text")
        resume_keywords == resume_parsed_data.keywords
        job_description == DictGet(job_data, "job_description")
        job_title == DictGet(job_data, "job_title")
    IN IF ~Truthy(resume_text) \/ ~Truthy(job_description)
       THEN [mpc |-> "returned",
             result |-> EmptyResult,
             frame |-> [path |-> "empty"],
             calls |-> {},
             resume |-> resume_parsed_data]
       ELSE IF job_title.none
       THEN \* job_description + " " + job_title: str + None
            [mpc |-> "raised",
             result |-> "TypeError",
             frame |-> [path |-> "concat"],
             calls |-> {},
             resume |-> resume_parsed_data]
       ELSE LET job_description_skills ==
                    ExtractSkills(job_description.words \o job_title.words)
                job_description_keywords ==
                    ExtractGeneralKeywords(job_description.words, loaded)
                keyword_score ==
                    _calculate_keyword_overlap_score(resume_keywords,
                                                     job_description_keywords)
                semantic_score ==
                    get_semantic_score(resume_text, job_description, cos)
                normalized_semantic_score == NormalizeSemantic(semantic_score)
                final_score ==
                    AfterThresholding(
                        WeightedScore(keyword_score, normalized_semantic_score),
                        normalized_semantic_score)
            IN [mpc |-> "returned",
                result |->
                    [final_score |-> Percent(final_score),
                     keyword_score |-> Percent(keyword_score),
                     semantic_score |-> Percent(normalized_semantic_score),
                     matched_keywords |->
                         MatchedKeywords(resume_keywords,
                                         job_description_keywords)],
                frame |->
                    [path |-> "scored",
                     job_description_skills |-> job_description_skills,
                     job_description_keywords |-> job_description_keywords,
                     keyword_score |-> keyword_score,
                     semantic_score |-> semantic_score,
                     normalized_semantic_score |-> normalized_semantic_score],
                calls |-> {"extract_skills", "extract_general_keywords",
                           "get_semantic_score", "encode", "cos_sim"},
                resume |->
                    ResumeAfterMatch(resume_parsed_data,
                                     job_description_keywords)]

\* One call of match_job_to_resume on the arguments at hand.
MatchJobToResume ==
    /\ mpc = "ready"
    /\ LET r == match_job_to_resume(parsed_resume, job, raw, nlp_loaded)
       IN /\ mpc' = r.mpc
          /\ result' = r.result
          /\ frame' = r.frame
          /\ calls' = r.calls
          /\ parsed_resume' = r.resume
    /\ UNCHANGED <<nlp_loaded, job, raw, storeVars, concVars, moreVars, appVars>>

\* Rows as get_all_jobs hands them to the scoring loop: every column is a
\* key, a column inserted as None reads back as None.
JobRows ==
    {[job_id |-> PyStr(<<"j1">>), job_title |-> t, job_description |-> d,
      status |-> DefaultStatus] :
        t \in {PyNone, PyStr(<<"design">>)},
        d \in {PyNone} \cup {PyStr(w) : w \in Texts}}

InitMatch ==
    /\ db = <<>>
    /\ call = Called("init", PyNone, "", FALSE)
    /\ ConcIdle
    /\ nlp_loaded \in BOOLEAN
    /\ \E resume_text \in Texts : parsed_resume = ParseResume(resume_text, nlp_loaded)
    /\ job \in JobRows
    /\ raw \in RawValues
    /\ mpc = "ready"
    /\ result = <<>>
    /\ frame = <<>>
    /\ calls = {}
    /\ MoreIdle

NextMatch == MatchJobToResume

SpecMatch == InitMatch /\ [][NextMatch]_vars

----------------------------------------------------------------------------
(* match_job_to_resume under other weights *)

\* Weights configured in settings: KEYWORD_WEIGHT = w / WeightScale and
\* SEMANTIC_WEIGHT = 1 - KEYWORD_WEIGHT, both non-negative, sum 1.
WeightScale == 4
WeightChoices ==
    {[DefaultSettings EXCEPT
        !.KEYWORD_WEIGHT = Rat(w, WeightScale),
        !.SEMANTIC_WEIGHT = Rat(WeightScale - w, WeightScale)] :
            w \in 0..WeightScale}

InitWeights ==
    /\ db = <<>>
    /\ call = Called("init", PyNone, "", FALSE)
    /\ ConcIdle
    /\ nlp_loaded = TRUE
    /\ \E resume_text \in Texts : parsed_resume = ParseResume(resume_text, nlp_loaded)
    /\ job \in JobRows
    /\ raw \in RawValues
    /\ mpc = "ready"
    /\ result = <<>>
    /\ frame = <<>>
    /\ calls = {}
    /\ settings \in WeightChoices
    /\ ApiIdle /\ SemIdle /\ LoopIdle /\ AppIdle

SpecWeights == InitWeights /\ [][NextMatch]_vars

----------------------------------------------------------------------------
(* match_job_to_resume run twice: after the first run one thing is changed
   (the configured threshold, the resume's skills list or the posting's
   title) and the method is called again. *)

\* SEMANTIC_THRESHOLD values: t / ThresholdScale.
ThresholdScale == 4
ThresholdChoices == {Rat(t, ThresholdScale) : t \in 0..ThresholdScale}

\* Values of resume_parsed_data["skills"].
SkillLists == {<<>>, <<"design">>, <<"design", "testing">>}

\* Values of job_data["job_title"], None for a posting stored without one.
TitleChoices ==
    {PyNone, PyStr(<<>>), PyStr(<<"design">>), PyStr(<<"testing">>)}

\* Resume texts of the two-run checks.
RerunTexts == {<<>>, <<"design">>, <<"design", "testing">>, <<"Analysis", "the">>}

\* The first call is over and nothing has been changed yet.
FirstRunOver == mpc \in {"returned", "raised"} /\ rerun.what = "none"

\* What the first run did, kept for comparison.
FirstRun(what) == [what |-> what, outcome |-> mpc, result |-> result]

\* settings.SEMANTIC_THRESHOLD is set to another value, then the same call
\* is made again.
RunAgainWithThreshold(threshold) ==
    /\ FirstRunOver
    /\ threshold # settings.SEMANTIC_THRESHOLD
    /\ settings' = [settings EXCEPT !.SEMANTIC_THRESHOLD = threshold]
    /\ rerun' = FirstRun("threshold")
    /\ mpc' = "ready"
    /\ UNCHANGED <<nlp_loaded, parsed_resume, job, raw, result, frame, calls,
                   storeVars, concVars, apiVars, semVars, loopVars,
                   jobs_data, selected_resume_file_name, ev, last_parse>>

\* The resume dict is given another skills list, then the call is made
\* again.
RunAgainWithSkills(skills) ==
    /\ FirstRunOver
    /\ skills # parsed_resume.skills
    /\ parsed_resume' = [parsed_resume EXCEPT !.skills = skills]
    /\ rerun' = FirstRun("skills")
    /\ mpc' = "ready"
    /\ UNCHANGED <<nlp_loaded, job, raw, result, frame, calls,
                   storeVars, concVars, moreVars,
                   jobs_data, selected_resume_file_name, ev, last_parse>>

\* The posting is given another title, then the call is made again.
RunAgainWithTitle(title) ==
    /\ FirstRunOver
    /\ title # job.job_title
    /\ job' = [job EXCEPT !.job_title = title]
    /\ rerun' = FirstRun("title")
    /\ mpc' = "ready"
    /\ UNCHANGED <<nlp_loaded, parsed_resume, raw, result, frame, calls,
                   storeVars, concVars, moreVars,
                   jobs_data, selected_resume_file_name, ev, last_parse>>

InitRerun ==
    /\ db = <<>>
    /\ call = Called("init", PyNone, "", FALSE)
    /\ ConcIdle
    /\ nlp_loaded = TRUE
    /\ \E resume_text \in RerunTexts :
          parsed_resume = ParseResume(resume_text, nlp_loaded)
    /\ job \in JobRows
    /\ raw \in RawValues
    /\ mpc = "ready"
    /\ result = <<>>
    /\ frame = <<>>
    /\ calls = {}
    /\ settings \in WeightChoices
    /\ ApiIdle /\ SemIdle /\ LoopIdle /\ AppIdle

NextRerun ==
    \/ MatchJobToResume
    \/ \E threshold \in ThresholdChoices : RunAgainWithThreshold(threshold)
    \/ \E skills \in SkillLists : RunAgainWithSkills(skills)
    \/ \E title \in TitleChoices : RunAgainWithTitle(title)

SpecRerun == InitRerun /\ [][NextRerun]_vars

----------------------------------------------------------------------------
(* The scoring loop of "Fetch & Match Jobs": every stored posting is scored
   against the loaded resume.  The postings are taken here in any order and
   any number of times. *)

\* Loaded resumes: session state keeps a parsed resume only if its text is
\* not empty.
LoopResumes ==
    {ParseResume(t, TRUE) :
        t \in {<<"design">>, <<"design", "testing">>, <<"Analysis", "the">>}}

\* Stored tables of two postings, as insert_job wrote them.
LoopTables ==
    {<<NewRow([job_id |-> PyStr(<<"j1">>), job_title |-> t1,
               job_description |-> d1]),
       NewRow([job_id |-> PyStr(<<"j2">>), job_title |-> t2,
               job_description |-> d2])>> :
        t1 \in {PyNone, PyStr(<<"design">>)},
        t2 \in {PyStr(<<"design">>)},
        d1 \in {PyStr(<<>>), PyStr(<<"design", "Analysis">>)},
        d2 \in {PyStr(<<"design", "Analysis">>), PyStr(<<"testing">>)}}

\* No posting scored yet.
Unscored == [done |-> FALSE]

\* for job in all_jobs_from_db: the call is about to be made for row i.
LoopPick(i) ==
    /\ cur = 0
    /\ mpc \in {"idle", "returned", "raised"}
    /\ i \in 1..Len(db)
    /\ cur' = i
    /\ job' = db[i]
    /\ raw' = raws[i]
    /\ mpc' = "ready"
    /\ result' = <<>>
    /\ frame' = <<>>
    /\ calls' = {}
    /\ UNCHANGED <<nlp_loaded, parsed_resume, raws, scores, storeVars, concVars,
                   settings, apiVars, semVars, appVars>>

\* match_result is kept for the posting (or the exception is seen).
LoopKeep ==
    /\ cur # 0
    /\ mpc \in {"returned", "raised"}
    /\ scores' = [scores EXCEPT
                     ![cur] = [done |-> TRUE, outcome |-> mpc, result |-> result]]
    /\ cur' = 0
    /\ UNCHANGED <<matchVars, raws, storeVars, concVars, settings, apiVars,
                   semVars, appVars>>

InitLoop ==
    /\ db \in LoopTables
    /\ call = Called("get_all_jobs", PyNone, "", db)
    /\ ConcIdle
    /\ nlp_loaded = TRUE
    /\ parsed_resume \in LoopResumes
    /\ job = PyNone
    /\ raw = <<>>
    /\ mpc = "idle"
    /\ result = <<>>
    /\ frame = <<>>
    /\ calls = {}
    /\ settings = DefaultSettings
    /\ ApiIdle /\ SemIdle /\ AppIdle
    /\ raws \in [1..2 -> RawValues]
    /\ cur = 0
    /\ scores = [i \in 1..2 |-> Unscored]

NextLoop ==
    \/ \E i \in 1..2 : LoopPick(i)
    \/ MatchJobToResume
    \/ LoopKeep

SpecLoop == InitLoop /\ [][NextLoop]_vars

----------------------------------------------------------------------------
(* JSearchAPI: _make_request and search_jobs.  One step is one HTTP request
   of _make_request together with everything the code does until the next
   request is sent or search_jobs returns. *)

\* What one requests.get attempt can end in: a 200 answer whose JSON has a
\* non-empty "data" list or has none, an HTTPError with status 429, with
\* another 4xx status or with a 5xx status, a ConnectionError, a Timeout, or
\* any other exception.
OkOutcomes == {"data", "empty"}
Retryable == {"429", "5xx", "ConnectionError", "Timeout"}
Permanent == {"4xx", "Exception"}
Outcomes == OkOutcomes \cup Retryable \cup Permanent

max_retries == 3
first_retry_delay == 5
MaxPages == 3

\* response_data["data"] of page p: two postings.
ResponseData(page) == <<[page |-> page, n |-> 1], [page |-> page, n |-> 2]>>

\* for job in response_data["data"]: job['api_source'] = 'jsearch'
Tagged(data) ==
    [i \in DOMAIN data |->
        [page |-> data[i].page, n |-> data[i].n, api_source |-> "jsearch"]]

\* Every failed attempt is followed by a wait and another attempt.
RetriesOnAnyFailure(outcome) == outcome \notin OkOutcomes

\* The except branches that sleep and go round the for loop again.
RetriesOn(outcome) == outcome \in Retryable

\* A wait that stays the same.
SameDelay(delay) == delay

\* retry_delay *= 2
NextDelay(delay) == delay * 2

\* The page's postings put in front of the earlier ones.
ExtendAtFront(jobs, data) == Tagged(data) \o jobs

\* all_jobs.extend(response_data["data"]), the postings tagged
Extend(jobs, data) == jobs \o Tagged(data)

\* The for loop over the pages never left early.
NeverBreaks(response_data) == FALSE

\* if response_data is None: break
BreaksBatch(response_data) == response_data = "None"

\* _make_request returns response_data for page p having sent the requests
\* in log; search_jobs handles it and either goes on to the next page, whose
\* _make_request starts with its locals fresh, or returns all_jobs.
PageReturns(response_data, log) ==
    LET jobs == IF response_data = "data"
                THEN Extend(all_jobs, ResponseData(p))
                ELSE all_jobs
        leave == BreaksBatch(response_data) \/ p = num_pages
    IN /\ trylog' = log
       /\ mret' = response_data
       /\ pages' = Append(pages, [page |-> p, response |-> response_data,
                                  requests |-> Len(log),
                                  last |-> log[Len(log)].outcome])
       /\ all_jobs' = jobs
       /\ IF leave
          THEN /\ spc' = "done"
               /\ sret' = jobs
               /\ p' = p
               /\ attempt' = 0
               /\ retry_delay' = 0
          ELSE /\ spc' = "request"
               /\ sret' = sret
               /\ p' = p + 1
               /\ attempt' = 0
               /\ retry_delay' = first_retry_delay

\* A for loop that goes round once more than max_retries allows.
OneAttemptMore(n) == n + 1 < max_retries + 1

\* for attempt in range(max_retries): after request number n + 1 (attempt
\* index n) has failed, the loop has another iteration left.
MoreAttempts(n) == n + 1 < max_retries

\* The requests sent so far by the running _make_request call.
SentSoFar == IF attempt = 0 THEN <<>> ELSE trylog

\* requests.get succeeds: return response.json()
RequestAnswered(outcome) ==
    /\ spc = "request"
    /\ outcome \in OkOutcomes
    /\ PageReturns(outcome, Append(SentSoFar, [outcome |-> outcome, slept |-> 0]))
    /\ UNCHANGED <<num_pages, storeVars, concVars, matchVars, settings,
                   semVars, loopVars, appVars>>

\* A failure that is not retried (or the third one): _make_request returns
\* None, after the wait if the failure is of a retried kind.
RequestGivenUp(outcome) ==
    /\ spc = "request"
    /\ outcome \notin OkOutcomes
    /\ ~RetriesOn(outcome) \/ ~MoreAttempts(attempt)
    /\ PageReturns("None",
                   Append(SentSoFar,
                          [outcome |-> outcome,
                           slept |-> IF RetriesOn(outcome) THEN retry_delay ELSE 0]))
    /\ UNCHANGED <<num_pages, storeVars, concVars, matchVars, settings,
                   semVars, loopVars, appVars>>

\* A failure that is retried: time.sleep(retry_delay), the delay grows and
\* the for loop sends the next request.
RequestRetried(outcome) ==
    /\ spc = "request"
    /\ RetriesOn(outcome)
    /\ MoreAttempts(attempt)
    /\ trylog' = Append(SentSoFar, [outcome |-> outcome, slept |-> retry_delay])
    /\ retry_delay' = NextDelay(retry_delay)
    /\ attempt' = attempt + 1
    /\ UNCHANGED <<spc, p, num_pages, mret, pages, all_jobs, sret, storeVars,
                   concVars, matchVars, settings, semVars, loopVars, appVars>>

\* search_jobs(query, page = 1, num_pages = n) has been called.
InitApi ==
    /\ db = <<>>
    /\ call = Called("init", PyNone, "", FALSE)
    /\ ConcIdle
    /\ MatchIdle
    /\ settings = DefaultSettings
    /\ SemIdle /\ LoopIdle /\ AppIdle
    /\ spc = "request"
    /\ p = 1
    /\ num_pages \in 1..MaxPages
    /\ attempt = 0
    /\ retry_delay = first_retry_delay
    /\ trylog = <<>>
    /\ mret = "none yet"
    /\ pages = <<>>
    /\ all_jobs = <<>>
    /\ sret = <<>>

NextApi ==
    \/ \E outcome \in Outcomes : RequestAnswered(outcome)
    \/ \E outcome \in Outcomes : RequestGivenUp(outcome)
    \/ \E outcome \in Outcomes : RequestRetried(outcome)

SpecApi == InitApi /\ [][NextApi]_vars

----------------------------------------------------------------------------
(* SemanticMatcher called directly: the arguments are drawn first, then one
   of the three methods is applied to them. *)

\* Texts handed to get_embedding and get_semantic_score.
TextInputs == {PyNone} \cup {PyStr(w) : w \in Texts}

\* get_embedding(text1); encoded is what was handed to self.model.encode.
SemGetEmbedding ==
    /\ sem.op = "input"
    /\ sem' = [sem EXCEPT
                 !.op = "get_embedding",
                 !.value = get_embedding(sem.text1),
                 !.encoded = IF ~Truthy(sem.text1) THEN {} ELSE {sem.text1}]
    /\ UNCHANGED <<storeVars, concVars, matchVars, settings, apiVars, loopVars,
                   appVars>>

\* calculate_similarity(embedding1, embedding2) on embeddings that are None
\* or the vectors of text1 and text2, got beforehand.
SemCalculateSimilarity ==
    /\ sem.op = "input"
    /\ sem' = [sem EXCEPT
                 !.op = "calculate_similarity",
                 !.text1 = get_embedding(sem.text1),
                 !.text2 = get_embedding(sem.text2),
                 !.value = calculate_similarity(get_embedding(sem.text1),
                                                get_embedding(sem.text2),
                                                sem.cos),
                 !.encoded = {}]
    /\ UNCHANGED <<storeVars, concVars, matchVars, settings, apiVars, loopVars,
                   appVars>>

\* get_semantic_score(text1, text2)
SemGetSemanticScore ==
    /\ sem.op = "input"
    /\ sem' = [sem EXCEPT
                 !.op = "get_semantic_score",
                 !.value = get_semantic_score(sem.text1, sem.text2, sem.cos),
                 !.encoded = IF ~Truthy(sem.text1) \/ ~Truthy(sem.text2) THEN {}
                             ELSE {sem.text1, sem.text2}]
    /\ UNCHANGED <<storeVars, concVars, matchVars, settings, apiVars, loopVars,
                   appVars>>

InitSem ==
    /\ db = <<>>
    /\ call = Called("init", PyNone, "", FALSE)
    /\ ConcIdle
    /\ MatchIdle
    /\ settings = DefaultSettings
    /\ ApiIdle /\ LoopIdle /\ AppIdle
    /\ \E text1, text2 \in TextInputs, cos \in RawValues :
          sem = [op |-> "input", text1 |-> text1, text2 |-> text2, cos |-> cos,
                 value |-> PyNone, encoded |-> {}]

NextSem ==
    \/ SemGetEmbedding
    \/ SemCalculateSimilarity
    \/ SemGetSemanticScore

SpecSem == InitSem /\ [][NextSem]_vars

----------------------------------------------------------------------------
(* ResumeParser.parse_resume(resume_source, is_file_path) *)

\* A resume source: a path (is_file_path) that exists or not, or an
\* uploaded file object; ext is what the name ends with (lower-cased),
\* readable says whether its bytes can be read and decoded (a .txt that is
\* valid UTF-8, a .pdf that pypdf can open), text is the text they hold.
ResumeSources ==
    {[is_file_path |-> TRUE, exists |-> e, ext |-> x, readable |-> r,
      text |-> t] :
        e \in BOOLEAN, x \in {"txt", "pdf", "other"}, r \in BOOLEAN,
        t \in Texts}
    \cup
    {[is_file_path |-> FALSE, exists |-> TRUE, ext |-> x, readable |-> r,
      text |-> t] :
        x \in {"txt", "pdf", "other"}, r \in BOOLEAN, t \in Texts}

\* {"text": "", "skills": [], "keywords": []}
EmptyParse == [text |-> PyStr(<<>>), skills |-> <<>>, keywords |-> <<>>]

\* _read_txt_text(file_path): the text, "" on any exception.
_read_txt_text(source) == IF source.readable THEN source.text ELSE <<>>

\* _read_pdf_text(file_bytes): the pages' text, "" on any exception.
_read_pdf_text(source) == IF source.readable THEN source.text ELSE <<>>

\* parse_resume: how the call ends and what it returns or raises.
parse_resume(source, loaded) ==
    IF source.is_file_path
    THEN IF ~source.exists
         THEN [outcome |-> "returned", value |-> EmptyParse]
         ELSE IF source.ext = "txt"
         THEN [outcome |-> "returned",
               value |-> ParseResume(_read_txt_text(source), loaded)]
         ELSE [outcome |-> "returned", value |-> EmptyParse]
    ELSE IF source.ext = "pdf"
         THEN [outcome |-> "returned",
               value |-> ParseResume(_read_pdf_text(source), loaded)]
         ELSE IF source.ext = "txt"
         THEN \* resume_source.getvalue().decode('utf-8'), outside any try
              IF source.readable
              THEN [outcome |-> "returned",
                    value |-> ParseResume(source.text, loaded)]
              ELSE [outcome |-> "raised", value |-> "UnicodeDecodeError"]
         ELSE [outcome |-> "returned", value |-> EmptyParse]

\* One parse_resume call on a source drawn beforehand.
ParseResumeCall ==
    /\ ev.op = "input"
    /\ LET r == parse_resume(ev.source, nlp_loaded)
       IN ev' = [op |-> "parse_resume", source |-> ev.source,
                 outcome |-> r.outcome, value |-> r.value]
    /\ UNCHANGED <<storeVars, concVars, matchVars, moreVars, jobs_data,
                   selected_resume_file_name, last_parse, rerun>>

InitParse ==
    /\ db = <<>>
    /\ call = Called("init", PyNone, "", FALSE)
    /\ ConcIdle
    /\ nlp_loaded \in BOOLEAN
    /\ parsed_resume = PyNone /\ job = PyNone
    /\ raw = <<>> /\ mpc = "idle" /\ result = <<>> /\ frame = <<>>
    /\ calls = {}
    /\ settings = DefaultSettings
    /\ ApiIdle /\ SemIdle /\ LoopIdle
    /\ jobs_data = <<>>
    /\ selected_resume_file_name = "None selected"
    /\ \E source \in ResumeSources : ev = [op |-> "input", source |-> source]
    /\ last_parse = PyNone
    /\ rerun = [what |-> "none"]

NextParse == ParseResumeCall

SpecParse == InitParse /\ [][NextParse]_vars

----------------------------------------------------------------------------
(* ResumeParser.extract_skills character by character: the text is a
   sequence of characters and the search is the regular expression
   \b<term>\b of the code, a word character being a letter, a digit or the
   underscore. *)

\* Characters of the texts: letters in both cases, a letter of no term, the
\* plus sign and the blank.
SkillChars == {"c", "C", "a", "d", "x", "+", " "}

MaxChars == 4

CharTexts == UNION {[1..n -> SkillChars] : n \in 0..MaxChars}

\* self.common_skills_lower, the entries 'cad' and 'c++' of it, in the order
\* of the list.
spelled_skills_lower == << <<"c", "a", "d">>, <<"c", "+", "+">> >>

\* str.lower()
LowerChar(ch) == IF ch = "C" THEN "c" ELSE ch
LowerChars(text) == [i \in DOMAIN text |-> LowerChar(text[i])]

\* \w of the regular expression
IsWordChar(ch) == ch \notin {"+", " "}

\* \b between text[k] and text[k + 1] (k = 0: the start of the text,
\* k = Len(text): its end): a word character on exactly one side.
WordBoundary(text, k) ==
    LET before == k >= 1 /\ IsWordChar(text[k])
        after == k < Len(text) /\ IsWordChar(text[k + 1])
    IN before # after

\* re.search(r'\b' + re.escape(skill) + r'\b', text) finds a match.
SearchBounded(skill, text) ==
    \E s \in 1..(Len(text) - Len(skill) + 1) :
        /\ SubSeq(text, s, s + Len(skill) - 1) = skill
        /\ WordBoundary(text, s - 1)
        /\ WordBoundary(text, s + Len(skill) - 1)

\* Code point order of the characters.
CharCode(ch) ==
    CASE ch = " " -> 32
      [] ch = "+" -> 43
      [] ch = "C" -> 67
      [] ch = "a" -> 97
      [] ch = "c" -> 99
      [] ch = "d" -> 100
      [] OTHER -> 120

\* a < b for Python strings.
RECURSIVE StrLess(_, _)
StrLess(a, b) ==
    IF b = <<>> THEN FALSE
    ELSE IF a = <<>> THEN TRUE
    ELSE IF a[1] # b[1] THEN CharCode(a[1]) < CharCode(b[1])
    ELSE StrLess(Tail(a), Tail(b))

\* sorted(list(S)) for a set of strings.
RECURSIVE SortedStrings(_)
SortedStrings(S) ==
    IF S = {} THEN <<>>
    ELSE LET least == CHOOSE a \in S : \A b \in S \ {a} : StrLess(a, b)
         IN <<least>> \o SortedStrings(S \ {least})

\* extract_skills(text)
extract_skills(text) ==
    LET text_lower == LowerChars(text)
        found_skills == SelectSeq(spelled_skills_lower,
                            LAMBDA skill : SearchBounded(skill, text_lower))
    IN SortedStrings(Range(found_skills))

\* One extract_skills call on a text drawn beforehand.
ExtractSkillsCall ==
    /\ ev.op = "text"
    /\ ev' = [op |-> "extract_skills", text |-> ev.text,
              value |-> extract_skills(ev.text)]
    /\ UNCHANGED <<storeVars, concVars, matchVars, moreVars, jobs_data,
                   selected_resume_file_name, last_parse, rerun>>

InitSkills ==
    /\ db = <<>>
    /\ call = Called("init", PyNone, "", FALSE)
    /\ ConcIdle
    /\ MatchIdle
    /\ settings = DefaultSettings
    /\ ApiIdle /\ SemIdle /\ LoopIdle
    /\ jobs_data = <<>>
    /\ selected_resume_file_name = "None selected"
    /\ \E text \in CharTexts : ev = [op |-> "text", text |-> text]
    /\ last_parse = PyNone
    /\ rerun = [what |-> "none"]

NextSkills == ExtractSkillsCall

SpecSkills == InitSkills /\ [][NextSkills]_vars

----------------------------------------------------------------------------
(* The app script (app.py), one action per rerun of the script: a rerun
   with a file in the uploader, a rerun with a choice in the selectbox of
   existing resumes, a press of "Fetch & Match Jobs", a press of a "Save
   Status" button. *)

\* Texts of the resume files of the model.
FileTexts ==
    {<<>>, <<"design">>, <<"testing">>, <<"design", "testing">>,
     <<"Analysis", "the">>}

\* What the name ends with.
ExtOf(name) == IF name \in {"a.txt", "c.txt"} THEN "txt" ELSE "pdf"

\* Files the uploader can hold (type = ["pdf", "txt"]).
UploadFiles ==
    {[name |-> n,
      source |-> [is_file_path |-> FALSE, exists |-> TRUE, ext |-> ExtOf(n),
                  readable |-> r, text |-> t]] :
        n \in {"a.txt", "b.pdf"}, r \in BOOLEAN, t \in FileTexts}

\* Files of settings.RESUME_DIR the selectbox lists (.txt and .pdf).
ExistingFiles ==
    {[name |-> n,
      source |-> [is_file_path |-> TRUE, exists |-> TRUE, ext |-> ExtOf(n),
                  readable |-> r, text |-> t]] :
        n \in {"a.txt", "c.txt", "c.pdf"}, r \in BOOLEAN, t \in FileTexts}

\* The failed parse result left in the slot.
SlotKeepsFailedParse(old, parsed) == parsed

\* The new parse result with the skills of the resume loaded before.
SlotMerged(old, parsed) ==
    IF Truthy(parsed.text)
    THEN IF old = PyNone THEN parsed ELSE [parsed EXCEPT !.skills = old.skills]
    ELSE PyNone

\* st.session_state.parsed_resume after the parse result was assigned to it:
\* the result, or None if its text is empty.  The value held before (old)
\* is overwritten.
SlotAfterParse(old, parsed) ==
    IF Truthy(parsed.text) THEN parsed ELSE PyNone

\* The resume block of the script for a source whose name differs from
\* selected_resume_file_name: the name is taken, the source parsed and the
\* slot assigned; an exception out of parse_resume ends the run before the
\* assignment.
LoadResume(op, file) ==
    LET r == parse_resume(file.source, nlp_loaded) IN
    /\ selected_resume_file_name' = file.name
    /\ IF r.outcome = "raised"
       THEN /\ parsed_resume' = parsed_resume
            /\ last_parse' = last_parse
            /\ ev' = [op |-> op, name |-> file.name, outcome |-> "raised"]
       ELSE /\ parsed_resume' = SlotAfterParse(parsed_resume, r.value)
            /\ last_parse' = IF Truthy(r.value.text) THEN r.value
                             ELSE last_parse
            /\ ev' = [op |-> op, name |-> file.name,
                      outcome |-> IF Truthy(r.value.text) THEN "loaded"
                                  ELSE "failed"]

\* A rerun with uploaded_file = file.
Upload(file) ==
    /\ IF selected_resume_file_name # file.name
       THEN LoadResume("upload", file)
       ELSE /\ ev' = [op |-> "upload", name |-> file.name,
                      outcome |-> "skipped"]
            /\ UNCHANGED <<parsed_resume, selected_resume_file_name,
                           last_parse>>
    /\ UNCHANGED <<nlp_loaded, job, raw, mpc, result, frame, calls, storeVars,
                   concVars, moreVars, jobs_data, rerun>>

\* A rerun with no uploaded file and file chosen in the selectbox.
SelectExisting(file) ==
    /\ IF selected_resume_file_name # file.name
       THEN LoadResume("select", file)
       ELSE /\ ev' = [op |-> "select", name |-> file.name,
                      outcome |-> "skipped"]
            /\ UNCHANGED <<parsed_resume, selected_resume_file_name,
                           last_parse>>
    /\ UNCHANGED <<nlp_loaded, job, raw, mpc, result, frame, calls, storeVars,
                   concVars, moreVars, jobs_data, rerun>>

\* A fresh session: parsed_resume None, jobs_data empty, no name selected.
InitSession ==
    /\ db = <<>>
    /\ call = Called("init", PyNone, "", FALSE)
    /\ ConcIdle
    /\ parsed_resume = PyNone
    /\ job = PyNone
    /\ mpc = "idle" /\ result = <<>> /\ frame = <<>> /\ calls = {}
    /\ settings = DefaultSettings
    /\ ApiIdle /\ SemIdle /\ LoopIdle
    /\ AppIdle

InitResume == InitSession /\ nlp_loaded \in BOOLEAN /\ raw = <<>>

NextResume ==
    \/ \E file \in UploadFiles : Upload(file)
    \/ \E file \in ExistingFiles : SelectExisting(file)

SpecResume == InitResume /\ [][NextResume]_vars

\* Postings search_jobs may return.
AppPostings ==
    {[job_id |-> PyStr(<<"j1">>), job_title |-> t, job_description |-> d] :
        t \in {PyNone, PyStr(<<"design">>)},
        d \in {PyStr(<<>>), PyStr(<<"design", "Analysis">>)}}
    \cup
    {[job_id |-> PyStr(<<"j2">>), job_title |-> PyStr(<<"design">>),
      job_description |-> PyStr(<<"design", "Analysis">>)]}

\* Lists search_jobs may return: none, one or two postings.
FetchedLists ==
    {<<>>} \cup {<<a>> : a \in AppPostings}
           \cup {<<a, b>> : a, b \in AppPostings}

\* Statuses picked in a posting's select box before its Save Status.
SaveInputs == {"seen", "applied"}

\* for job in fetched_jobs_raw: if db_manager.insert_job(job): count += 1
RECURSIVE InsertAll(_, _)
InsertAll(table, fetched) ==
    IF fetched = <<>> THEN [table |-> table, new_jobs_count |-> 0]
    ELSE LET before == InsertAll(table, SubSeq(fetched, 1, Len(fetched) - 1))
             job_data == fetched[Len(fetched)]
             done == IF ~Truthy(DictGet(job_data, "job_id"))
                     THEN [table |-> before.table, rowcount |-> 0]
                     ELSE ExecInsertOrIgnore(before.table, NewRow(job_data))
         IN [table |-> done.table,
             new_jobs_count |->
                 before.new_jobs_count +
                 (IF InsertReturns(done.rowcount) THEN 1 ELSE 0)]

\* {**job, **match_result}
Merged(row, match_result) ==
    [k \in DOMAIN row \cup DOMAIN match_result |->
        IF k \in DOMAIN match_result THEN match_result[k] ELSE row[k]]

\* sorted(rows, key = final_score) without reverse: lowest score first.
RECURSIVE SortedAscending(_)
SortedAscending(rows) ==
    IF rows = <<>> THEN <<>>
    ELSE LET rest == SortedAscending(SubSeq(rows, 1, Len(rows) - 1))
             x == rows[Len(rows)]
             k == Cardinality({i \in 1..Len(rest) :
                                 rest[i].final_score <= x.final_score})
         IN SubSeq(rest, 1, k) \o <<x>> \o SubSeq(rest, k + 1, Len(rest))

\* sorted(rows, key = final_score, reverse = True): highest score first,
\* rows of equal score in their order in rows.
RECURSIVE SortedByFinalScore(_)
SortedByFinalScore(rows) ==
    IF rows = <<>> THEN <<>>
    ELSE LET rest == SortedByFinalScore(SubSeq(rows, 1, Len(rows) - 1))
             x == rows[Len(rows)]
             k == Cardinality({i \in 1..Len(rest) :
                                 rest[i].final_score >= x.final_score})
         IN SubSeq(rest, 1, k) \o <<x>> \o SubSeq(rest, k + 1, Len(rest))

\* A button press that is never turned away.
NeverTurnedAway(slot) == FALSE

\* if not st.session_state.parsed_resume
NoResumeLoaded(slot) == slot = PyNone

\* The rows left on display after a save.
JobsDataKept(rows) == rows

\* st.session_state.jobs_data = [] after a successful update_job_status
JobsDataAfterSave(rows) == <<>>

\* "Fetch & Match Jobs" pressed, search_jobs returning fetched.
FetchAndMatch(fetched) ==
    /\ IF NoResumeLoaded(parsed_resume)
       THEN /\ ev' = [op |-> "fetch", outcome |-> "turned away",
                      requested |-> FALSE, new_jobs_count |-> 0]
            /\ UNCHANGED <<db, call, jobs_data>>
       ELSE LET stored == InsertAll(db, fetched)
                all_jobs_from_db == stored.table
                match_result ==
                    [i \in 1..Len(all_jobs_from_db) |->
                        match_job_to_resume(parsed_resume, all_jobs_from_db[i],
                                            raw, nlp_loaded)]
                raised == \E i \in 1..Len(all_jobs_from_db) :
                              match_result[i].mpc = "raised"
                jobs_with_scores ==
                    [i \in 1..Len(all_jobs_from_db) |->
                        Merged(all_jobs_from_db[i], match_result[i].result)]
            IN /\ db' = stored.table
               /\ call' = Called("get_all_jobs", PyNone, "", all_jobs_from_db)
               /\ ev' = [op |-> "fetch",
                         outcome |-> IF raised THEN "raised" ELSE "done",
                         requested |-> TRUE,
                         new_jobs_count |-> stored.new_jobs_count]
               /\ jobs_data' =
                     IF raised THEN jobs_data
                     ELSE IF all_jobs_from_db = <<>> THEN <<>>
                     ELSE SortedByFinalScore(jobs_with_scores)
    /\ UNCHANGED <<matchVars, concVars, moreVars, selected_resume_file_name,
                   last_parse, rerun>>

\* "Save Status" pressed on a displayed posting with new_status picked.
SaveStatus(job_id, new_status) ==
    /\ \E k \in 1..Len(jobs_data) : jobs_data[k].job_id = job_id
    /\ LET saved == UpdateReturns(UpdateRowcount(db, job_id))
       IN /\ db' = UpdateStatus(db, job_id, new_status)
          /\ call' = Called("update_job_status", job_id, new_status, saved)
          /\ jobs_data' = IF saved THEN JobsDataAfterSave(jobs_data)
                          ELSE jobs_data
          /\ ev' = [op |-> "save", outcome |-> IF saved THEN "saved"
                                               ELSE "failed",
                    job_id |-> job_id, new_status |-> new_status]
    /\ UNCHANGED <<matchVars, concVars, moreVars, selected_resume_file_name,
                   last_parse, rerun>>

\* Files of the whole-app specification: a resume and a PDF without text.
AppFiles ==
    {file \in UploadFiles :
        /\ file.source.readable
        /\ \/ file.name = "a.txt" /\ file.source.text = <<"design", "testing">>
           \/ file.name = "b.pdf" /\ file.source.text = <<>>}

InitApp == InitSession /\ nlp_loaded = TRUE /\ raw \in RawValues

NextApp ==
    \/ \E file \in AppFiles : Upload(file)
    \/ \E fetched \in FetchedLists : FetchAndMatch(fetched)
    \/ \E job_id \in IdInputs, new_status \in SaveInputs :
          SaveStatus(job_id, new_status)

SpecApp == InitApp /\ [][NextApp]_vars

----------------------------------------------------------------------------
(* Posting store: claims *)

\* C1 (as stated): insert_job returns True exactly when no row with the
\* posting's job_id exists beforehand, and a False return leaves the table
\* untouched.
C1_InsertTrueIffAbsent ==
    [][call'.op = "insert_job" =>
        /\ (call'.value = TRUE) <=> ~HasRow(db, call'.job_id)
        /\ (call'.value = FALSE) => db' = db]_vars

\* C1 (amended): for a posting with a non-empty job_id, insert_job returns
\* True exactly when no row with that job_id exists beforehand and otherwise
\* returns False leaving every row (status included) untouched; a posting
\* whose job_id is missing or empty is refused: False, table untouched.
C1_InsertTrueIffAbsentAndIdGiven ==
    [][call'.op = "insert_job" =>
        /\ (call'.value = TRUE) <=>
               (Truthy(call'.job_id) /\ ~HasRow(db, call'.job_id))
        /\ (call'.value = TRUE) =>
               /\ Len(db') = Len(db) + 1
               /\ RowOf(db', call'.job_id).status = DefaultStatus
        /\ (call'.value = FALSE) => db' = db]_vars

\* C1 witness: a second insert of a stored id returned False after the
\* row's status had been changed, and the status is still the changed one.
C1_Witness ==
    /\ call.op = "insert_job"
    /\ call.value = FALSE
    /\ HasRow(db, call.job_id)
    /\ RowOf(db, call.job_id).status = "applied"

\* C2: when the concurrent insert_job calls all carry the same job_id, not
\* stored beforehand, then once all have returned exactly one of them has
\* returned True, the others False, and the table holds exactly one row
\* for that id; at no moment has more than one call returned True for an
\* id, nor does the table hold two rows for it.
C2_ExactlyOneWinner ==
    \A id \in {cjob[c].job_id : c \in DOMAIN cjob} :
        LET winners == {c \in DOMAIN cjob :
                          /\ cjob[c].job_id = id
                          /\ cpc[c] = "done"
                          /\ cret[c] = TRUE}
            rows == {i \in 1..Len(db) : db[i].job_id = id}
        IN /\ Cardinality(winners) <= 1
           /\ Cardinality(rows) <= 1
           /\ (\A c \in DOMAIN cjob : cpc[c] = "done" /\ cjob[c].job_id = id) =>
                 /\ Cardinality(winners) = 1
                 /\ Cardinality(rows) = 1

\* C2 witness: all callers carried the same id and have returned; one of
\* the losers ran its INSERT and saw the row, another was locked out.
C2_Witness ==
    /\ DOMAIN cjob # {}
    /\ \A c \in DOMAIN cjob : cpc[c] = "done" /\ cjob[c].job_id = PyStr(<<"j1">>)
    /\ \E c \in DOMAIN cjob : cret[c] = FALSE /\ crowcount[c] = 0
    /\ \E c \in DOMAIN cjob : cret[c] = FALSE /\ crowcount[c] = -1

\* C3: every stored posting's status is one of new, seen, applied,
\* interviewing, rejected (update_job_status refuses any other value).
C3_StatusInVocabulary ==
    \A i \in 1..Len(db) : db[i].status \in status_options

\* C4: update_job_status(id, s) returns False and leaves the table unchanged
\* when id is not stored; when id is stored it returns True and the row's
\* status is s afterwards.
C4_UpdateStatusResult ==
    [][call'.op = "update_job_status" =>
        IF HasRow(db, call'.job_id)
        THEN /\ call'.value = TRUE
             /\ RowOf(db', call'.job_id).status = call'.new_status
        ELSE /\ call'.value = FALSE
             /\ db' = db]_vars

\* C4 witness: an update of a stored id returned True and the row carries
\* the new status, while another stored row exists.
C4_Witness ==
    /\ call.op = "update_job_status"
    /\ call.value = TRUE
    /\ Len(db) = 2
    /\ RowOf(db, call.job_id).status = call.new_status
    /\ call.new_status = "interviewing"

\* C5: no store operation deletes a row or changes a field other than
\* status, and a row's status changes only in update_job_status on that
\* row's own job_id.
C5_OnlyStatusMutable ==
    [][\A i \in 1..Len(db) :
        /\ HasRow(db', db[i].job_id)
        /\ RowOf(db', db[i].job_id).job_title = db[i].job_title
        /\ RowOf(db', db[i].job_id).job_description = db[i].job_description
        /\ RowOf(db', db[i].job_id).status # db[i].status =>
               /\ call'.op = "update_job_status"
               /\ call'.job_id = db[i].job_id]_vars

\* C5 witness: after inserts, a status change and a refused re-insert, both
\* rows are still stored and a read has just run.
C5_Witness ==
    /\ call.op = "get_all_jobs"
    /\ Len(db) = 2
    /\ \E i \in 1..2 : db[i].status = "rejected"
    /\ \E i \in 1..2 : db[i].status = "new"

----------------------------------------------------------------------------
(* Score combiner: claims *)

\* The resume keyword set R and the job keyword set J of a scored call.
KeywordsR == Range(parsed_resume.keywords)
KeywordsJ == Range(frame.job_description_keywords)

\* |R & J| / |R | J|, and 0 when R or J is empty.
Jaccard(R, J) ==
    IF R = {} \/ J = {} THEN Rat(0, 1)
    ELSE Rat(Cardinality(R \cap J), Cardinality(R \cup J))

EmptyInput ==
    \/ ~Truthy(parsed_resume.text)
    \/ ~Truthy(job.job_description)

\* C6: with an empty resume text or an empty job description,
\* match_job_to_resume returns final score 0.0, keyword score 0.0, semantic
\* score 0.0 and an empty matched_keywords, and calls neither the extractor
\* nor the embedder.
C6_EmptyInputGivesZeroResult ==
    (mpc \in {"returned", "raised"} /\ EmptyInput) =>
        /\ mpc = "returned"
        /\ calls = {}
        /\ result.final_score = 0
        /\ result.keyword_score = 0
        /\ result.semantic_score = 0
        /\ "matched_keywords" \in DOMAIN result
        /\ result.matched_keywords = {}

\* C7: for every parsed resume and every row read back from the store,
\* match_job_to_resume never raises and returns a dict carrying final_score,
\* keyword_score, semantic_score and matched_keywords.
C7_AlwaysWellFormedResult ==
    mpc \in {"returned", "raised"} =>
        /\ mpc = "returned"
        /\ DOMAIN result =
             {"final_score", "keyword_score", "semantic_score", "matched_keywords"}

\* C8: the keyword score of a scored call equals |R & J| / |R | J| over the
\* resume keyword set R and the job keyword set J, and is 0 when R or J is
\* empty.
C8_KeywordScoreIsJaccard ==
    (mpc = "returned" /\ frame.path = "scored") =>
        IF KeywordsR = {} \/ KeywordsJ = {}
        THEN frame.keyword_score.num = 0
        ELSE frame.keyword_score.num * Cardinality(KeywordsR \cup KeywordsJ)
               = Cardinality(KeywordsR \cap KeywordsJ) * frame.keyword_score.den

\* C8 witness: a scored call whose two keyword sets overlap in part
\* (one shared keyword of three): score 1/3.
C8_Witness ==
    /\ mpc = "returned" /\ frame.path = "scored"
    /\ Cardinality(KeywordsR \cap KeywordsJ) = 1
    /\ Cardinality(KeywordsR \cup KeywordsJ) = 3
    /\ REq(frame.keyword_score, Rat(1, 3))

\* C9: for non-empty R and J the keyword score lies in [0, 1] and equals 1
\* exactly when R = J.
C9_KeywordScoreRangeAndUnit ==
    (mpc = "returned" /\ frame.path = "scored"
       /\ KeywordsR # {} /\ KeywordsJ # {}) =>
        /\ frame.keyword_score.den > 0
        /\ RLeq(Rat(0, 1), frame.keyword_score)
        /\ RLeq(frame.keyword_score, Rat(1, 1))
        /\ REq(frame.keyword_score, Rat(1, 1)) <=> (KeywordsR = KeywordsJ)

\* C9 witness: a scored call where R is a proper, non-empty subset of J and
\* the score is below 1.
C9_Witness ==
    /\ mpc = "returned" /\ frame.path = "scored"
    /\ KeywordsR # {} /\ KeywordsR # KeywordsJ /\ KeywordsR \subseteq KeywordsJ
    /\ ~REq(frame.keyword_score, Rat(1, 1))

\* C10: on the scored path final_score = round((k * KEYWORD_WEIGHT +
\* s * SEMANTIC_WEIGHT) * 100, 2) with k the unrounded Jaccard score of R and
\* J and s = (raw + 1) / 2 the unrounded normalized similarity, both in
\* [0, 1].
C10_FinalScoreFormula ==
    (mpc = "returned" /\ frame.path = "scored") =>
        LET k == Jaccard(KeywordsR, KeywordsJ)
            s == Rat(raw.num + raw.den, 2 * raw.den)
            x == Rat(k.num * KEYWORD_WEIGHT.num * s.den * SEMANTIC_WEIGHT.den
                       + s.num * SEMANTIC_WEIGHT.num * k.den * KEYWORD_WEIGHT.den,
                     k.den * KEYWORD_WEIGHT.den * s.den * SEMANTIC_WEIGHT.den)
        IN /\ result.final_score = Round2(Rat(100 * x.num, x.den))
           /\ REq(frame.keyword_score, k)
           /\ REq(frame.normalized_semantic_score, s)
           /\ RLeq(Rat(0, 1), k) /\ RLeq(k, Rat(1, 1))
           /\ RLeq(Rat(0, 1), s) /\ RLeq(s, Rat(1, 1))

\* C10 witness: k = 1/3 and raw = 0 give final_score 41.67, which differs
\* from what the rounded percentages 33.33 and 50.0 would give.
C10_Witness ==
    /\ mpc = "returned" /\ frame.path = "scored"
    /\ REq(frame.keyword_score, Rat(1, 3))
    /\ raw.num = 0
    /\ result.final_score = 4167
    /\ result.keyword_score = 3333

\* round(keyword_score * KEYWORD_WEIGHT + semantic_score * SEMANTIC_WEIGHT, 2)
\* computed from the two percentages the result surfaces, in hundredths.
FromSurfaced ==
    Round2(RAdd(RMul(Rat(result.keyword_score, 100), settings.KEYWORD_WEIGHT),
                RMul(Rat(result.semantic_score, 100), settings.SEMANTIC_WEIGHT)))

\* C11 (as stated): every result's final_score equals the weighted sum of
\* its own surfaced keyword_score and semantic_score, rounded to two places.
C11_FinalFromSurfacedScores ==
    mpc = "returned" => result.final_score = FromSurfaced

\* C11 (amended): the final score is rounded from the unrounded scores, so
\* it lies within one hundredth of a point of the weighted sum of the
\* surfaced percentages, and equals it on the empty-input path.
C11_FinalWithinOneHundredth ==
    mpc = "returned" =>
        /\ result.final_score - FromSurfaced \in {0 - 1, 0, 1}
        /\ frame.path = "empty" => result.final_score = FromSurfaced

\* Keyword score 33.33, semantic score 50.0: the result says 41.67 where the
\* surfaced percentages give 41.66.
C11_Witness ==
    /\ mpc = "returned"
    /\ frame.path = "scored"
    /\ result.keyword_score = 3333
    /\ result.semantic_score = 5000
    /\ result.final_score = 4167
    /\ FromSurfaced = 4166

\* C12: whatever non-negative weights summing to 1 are configured, whatever
\* the keyword sets and whatever cosine in [-1, 1] the embedder yields, the
\* final, keyword and semantic scores of a result lie in [0, 100].
C12_ScoresWithinPercentRange ==
    mpc = "returned" =>
        /\ result.final_score \in 0..10000
        /\ result.keyword_score \in 0..10000
        /\ result.semantic_score \in 0..10000

\* All the weight on keywords, identical keyword sets, opposite embeddings:
\* the final score reaches 100 while the semantic score is 0.
C12_Witness ==
    /\ mpc = "returned"
    /\ frame.path = "scored"
    /\ REq(settings.KEYWORD_WEIGHT, Rat(1, 1))
    /\ REq(settings.SEMANTIC_WEIGHT, Rat(0, 1))
    /\ REq(raw, Rat(0 - 1, 1))
    /\ result.keyword_score = 10000
    /\ result.semantic_score = 0
    /\ result.final_score = 10000

\* C13: on the scored path matched_keywords is exactly the intersection of
\* the resume's keywords and the keywords extracted from the job
\* description, and it is non-empty exactly when keyword_score > 0.
C13_MatchedKeywordsIsIntersection ==
    (mpc = "returned" /\ frame.path = "scored") =>
        /\ result.matched_keywords =
               KeywordsR \cap
               Range(ExtractGeneralKeywords(job.job_description.words, nlp_loaded))
        /\ (result.matched_keywords # {}) <=> (result.keyword_score > 0)

\* The resume and the description share one keyword and each has one the
\* other lacks.
C13_Witness ==
    /\ mpc = "returned"
    /\ frame.path = "scored"
    /\ result.matched_keywords = {"design"}
    /\ KeywordsR = {"design", "testing"}
    /\ Range(frame.job_description_keywords) = {"analysis", "design"}
    /\ result.keyword_score = 3333

----------------------------------------------------------------------------
(* Job search client: claims *)

\* A _make_request call is between two of its requests.
CallRunning == spc = "request" /\ attempt > 0

\* The last _make_request call has returned.
CallFinished == trylog # <<>> /\ ~CallRunning

\* The postings of the pages that answered with data, in page order.
RECURSIVE PostingsOf(_)
PostingsOf(done) ==
    IF done = <<>> THEN <<>>
    ELSE LET k == Len(done)
         IN PostingsOf(SubSeq(done, 1, k - 1)) \o
            (IF done[k].response = "data"
             THEN Tagged(ResponseData(done[k].page)) ELSE <<>>)

\* C15: a request answered 429 or 5xx is sent again until it succeeds or 3
\* requests in total have been sent; the wait after the first failure is
\* 5 s and each later wait is twice the one before; once the 3 requests are
\* used up _make_request returns None.
C15_RetryWithDoublingBackoff ==
    /\ Len(trylog) <= max_retries
    /\ \A i \in 1..Len(trylog) :
          trylog[i].outcome \in {"429", "5xx"} =>
              /\ trylog[i].slept = IF i = 1 THEN first_retry_delay
                                   ELSE 2 * trylog[i - 1].slept
              /\ i < max_retries => (i < Len(trylog) \/ CallRunning)
              /\ (i = max_retries /\ CallFinished) => mret = "None"
    /\ (CallFinished /\ mret = "None"
            /\ trylog[Len(trylog)].outcome \in {"429", "5xx"}) =>
          Len(trylog) = max_retries

\* Three requests answered 429, 5xx, 429, waits of 5, 10 and 20 s, None.
C15_Witness ==
    /\ CallFinished
    /\ mret = "None"
    /\ Len(trylog) = 3
    /\ trylog[1] = [outcome |-> "429", slept |-> 5]
    /\ trylog[2] = [outcome |-> "5xx", slept |-> 10]
    /\ trylog[3] = [outcome |-> "429", slept |-> 20]

\* C27: every _make_request call ends after at most 3 HTTP requests whatever
\* their outcomes; a successful request is the call's last one and its JSON
\* is what the call returns; a call without a successful request returns
\* None.
C27_AtMostThreeRequestsFirstSuccessReturned ==
    /\ Len(trylog) <= max_retries
    /\ attempt < max_retries
    /\ \A i \in 1..Len(trylog) :
          trylog[i].outcome \in OkOutcomes =>
              /\ i = Len(trylog)
              /\ CallFinished
              /\ mret = trylog[i].outcome
    /\ (CallFinished /\ trylog[Len(trylog)].outcome \notin OkOutcomes) =>
          mret = "None"
    /\ \A i \in 1..Len(pages) : pages[i].requests \in 1..max_retries

\* Two failures, then the third request succeeds and its JSON is returned.
C27_Witness ==
    /\ CallFinished
    /\ Len(trylog) = max_retries
    /\ trylog[1].outcome \in Retryable
    /\ trylog[2].outcome \in Retryable
    /\ trylog[3].outcome \in OkOutcomes
    /\ mret = trylog[3].outcome

\* C16: a 4xx answer other than 429 ends the _make_request call at once:
\* it is the call's last request, no wait follows it, and the call
\* returns None.
C16_ClientErrorEndsCall ==
    \A i \in 1..Len(trylog) :
        trylog[i].outcome = "4xx" =>
            /\ i = Len(trylog)
            /\ trylog[i].slept = 0
            /\ CallFinished
            /\ mret = "None"

\* A 429 is retried after 5 s and the second request is answered 4xx.
C16_Witness ==
    /\ CallFinished
    /\ mret = "None"
    /\ trylog = <<[outcome |-> "429", slept |-> 5],
                  [outcome |-> "4xx", slept |-> 0]>>

\* C17: the list search_jobs returns holds the postings of every page that
\* answered with data, in page order, also when a later page's request has
\* failed.
C17_EarlierPagesKept ==
    /\ all_jobs = PostingsOf(pages)
    /\ spc = "done" => sret = PostingsOf(pages)

\* Pages 1 and 2 answered with data and page 3 was refused.
C17_Witness ==
    /\ spc = "done"
    /\ Len(pages) = 3
    /\ pages[1].response = "data"
    /\ pages[2].response = "data"
    /\ pages[3].response = "None"
    /\ pages[3].last = "4xx"
    /\ sret = Tagged(ResponseData(1)) \o Tagged(ResponseData(2))

\* C18 (as stated): a page whose request still fails with a transient
\* error after all retries counts as a page without data and the batch
\* goes on: every remaining page is requested.
C18_TransientFailureKeepsBatchGoing ==
    spc = "done" =>
        \A i \in 1..Len(pages) :
            (pages[i].response = "None" /\ pages[i].last \in Retryable) =>
                Len(pages) = num_pages

\* C18 (amended): a page whose request fails, retries used up or not, ends
\* the batch: no later page is requested and search_jobs returns the
\* postings of the pages before it.  Only a page that answers without data
\* counts as a page without data, and the batch goes on after it.
C18_FailedPageEndsBatch ==
    /\ \A i \in 1..Len(pages) :
          pages[i].response = "None" =>
              /\ i = Len(pages)
              /\ spc = "done"
              /\ sret = PostingsOf(SubSeq(pages, 1, i - 1))
    /\ \A i \in 1..Len(pages) :
          (pages[i].response = "empty" /\ i < num_pages) =>
              (i < Len(pages) \/ spc = "request")
    /\ (spc = "done" /\ Len(pages) < num_pages) =>
          pages[Len(pages)].response = "None"

\* Page 1 of 3 answered with data, page 2 timed out three times, page 3 was
\* never requested.
C18_Witness ==
    /\ spc = "done"
    /\ num_pages = 3
    /\ Len(pages) = 2
    /\ pages[1].response = "data"
    /\ pages[2] = [page |-> 2, response |-> "None", requests |-> 3,
                   last |-> "Timeout"]
    /\ sret = Tagged(ResponseData(1))

----------------------------------------------------------------------------
(* Vocabulary extractor and embedder: claims *)

\* C19: no parser is in use whose language model failed to load, so a
\* scored call always gets the keywords a loaded parser extracts from the
\* job description, never a silent empty list.
C19_NoParserWithoutLanguageModel ==
    (mpc = "returned" /\ frame.path = "scored") =>
        frame.job_description_keywords =
            ExtractGeneralKeywords(job.job_description.words, TRUE)

\* C20: get_embedding of an empty text returns None and encodes nothing,
\* calculate_similarity returns 0.0 when either embedding is None, and
\* get_semantic_score returns 0.0 when either text is empty, without
\* handing anything to the model.
C20_EmptyTextGivesSentinelAndZero ==
    /\ (sem.op = "get_embedding" /\ ~Truthy(sem.text1)) =>
          /\ sem.value = PyNone
          /\ sem.encoded = {}
    /\ (sem.op = "calculate_similarity"
            /\ (sem.text1 = PyNone \/ sem.text2 = PyNone)) =>
          REq(sem.value, Rat(0, 1))
    /\ (sem.op = "get_semantic_score"
            /\ (~Truthy(sem.text1) \/ ~Truthy(sem.text2))) =>
          /\ REq(sem.value, Rat(0, 1))
          /\ sem.encoded = {}

\* An empty text scored against a non-empty one whose vectors would have
\* had cosine 1.
C20_Witness ==
    /\ sem.op = "get_semantic_score"
    /\ sem.text1 = PyStr(<<>>)
    /\ Truthy(sem.text2)
    /\ REq(sem.cos, Rat(1, 1))
    /\ REq(sem.value, Rat(0, 1))
    /\ sem.encoded = {}

----------------------------------------------------------------------------
(* Resume parsing and the app session: claims *)

\* The source is missing, of an unsupported type, unreadable or empty.
NoUsableDocument(source) ==
    \/ source.is_file_path /\ ~source.exists
    \/ source.is_file_path /\ source.ext # "txt"
    \/ ~source.is_file_path /\ source.ext \notin {"pdf", "txt"}
    \/ ~source.readable
    \/ source.text = <<>>

\* C21: parse_resume never raises; for a missing file, an unsupported type
\* or an unreadable or empty document it returns the empty result, and in
\* every result an empty text comes with empty skills and keywords.
C21_ParseResumeNeverRaises ==
    ev.op = "parse_resume" =>
        /\ ev.outcome = "returned"
        /\ NoUsableDocument(ev.source) => ev.value = EmptyParse
        /\ ~Truthy(ev.value.text) =>
              (ev.value.skills = <<>> /\ ev.value.keywords = <<>>)

\* C26: the current-resume slot holds nothing or exactly the value of the
\* most recent successful parse, which is the parse of one file: never
\* fields of two resumes.
C26_SlotReplacedAsAWhole ==
    parsed_resume # PyNone =>
        /\ parsed_resume = last_parse
        /\ \E file \in UploadFiles \cup ExistingFiles :
              parsed_resume = ParseResume(file.source.text, nlp_loaded)

\* A second resume has been loaded over a first one with other skills and
\* keywords.
C26_Witness ==
    /\ ev.op = "select"
    /\ ev.outcome = "loaded"
    /\ ev.name = "c.txt"
    /\ selected_resume_file_name = "c.txt"
    /\ nlp_loaded
    /\ parsed_resume = ParseResume(<<"Analysis", "the">>, TRUE)
    /\ parsed_resume.skills = <<>>
    /\ last_parse = parsed_resume

\* C28: parsed_resume is None or a parse result with a non-empty text.
C28_SlotNoneOrNonEmptyText ==
    parsed_resume # PyNone =>
        /\ DOMAIN parsed_resume = {"text", "skills", "keywords"}
        /\ Truthy(parsed_resume.text)

\* A failed parse (a PDF without text) has just emptied a slot that had
\* held a resume.
C28_Witness ==
    /\ ev.op = "upload"
    /\ ev.outcome = "failed"
    /\ ev.name = "b.pdf"
    /\ last_parse # PyNone
    /\ parsed_resume = PyNone

\* C22: after a completed Fetch & Match pass jobs_data has exactly one row
\* for every posting in the store and for nothing else, and its rows are in
\* order of non-increasing final_score.
C22_RankedListCoversStore ==
    (ev.op = "fetch" /\ ev.outcome = "done") =>
        /\ Len(jobs_data) = Len(db)
        /\ \A i \in 1..Len(db) :
              Cardinality({k \in 1..Len(jobs_data) :
                              jobs_data[k].job_id = db[i].job_id}) = 1
        /\ \A k \in 1..Len(jobs_data) : HasRow(db, jobs_data[k].job_id)
        /\ \A k \in 1..Len(jobs_data) : \A m \in k..Len(jobs_data) :
              jobs_data[k].final_score >= jobs_data[m].final_score

\* A pass that added one posting to a store holding another: the new
\* posting scores higher than the stored one and is listed first.
C22_Witness ==
    /\ ev.op = "fetch"
    /\ ev.outcome = "done"
    /\ ev.new_jobs_count = 1
    /\ Len(db) = 2
    /\ Len(jobs_data) = 2
    /\ jobs_data[1].job_id = db[2].job_id
    /\ jobs_data[2].job_id = db[1].job_id
    /\ jobs_data[1].final_score > jobs_data[2].final_score

\* C29: the status carried by every row of jobs_data is the status of that
\* posting in the store.
C29_DisplayedStatusIsStoredStatus ==
    \A k \in 1..Len(jobs_data) :
        /\ HasRow(db, jobs_data[k].job_id)
        /\ RowOf(db, jobs_data[k].job_id).status = jobs_data[k].status

\* A status was saved, which emptied jobs_data, and the next Fetch & Match
\* lists the posting with the saved status.
C29_Witness ==
    /\ ev.op = "fetch"
    /\ ev.outcome = "done"
    /\ \E k \in 1..Len(jobs_data) :
          /\ jobs_data[k].status = "applied"
          /\ RowOf(db, jobs_data[k].job_id).status = "applied"

\* C30: Fetch & Match pressed while parsed_resume is None calls the job
\* source not at all, stores nothing and leaves jobs_data as it was.
C30_NoResumeNoFetch ==
    [][(ev'.op = "fetch" /\ parsed_resume = PyNone) =>
          /\ ev'.requested = FALSE
          /\ db' = db
          /\ jobs_data' = jobs_data]_vars

\* The button was pressed after a failed parse had emptied the slot, with
\* postings stored and listed from an earlier pass.
C30_Witness ==
    /\ ev.op = "fetch"
    /\ ev.outcome = "turned away"
    /\ ev.requested = FALSE
    /\ parsed_resume = PyNone
    /\ db # <<>>
    /\ jobs_data # <<>>
\* Both runs are over.
SecondRunOver(what) == rerun.what = what /\ mpc \in {"returned", "raised"}

\* C24: the result of match_job_to_resume does not depend on
\* SEMANTIC_THRESHOLD: a second run on the same resume and posting with the
\* same weights and another threshold ends as the first one did, with the
\* same result.
C24_ResultIndependentOfThreshold ==
    SecondRunOver("threshold") =>
        /\ mpc = rerun.outcome
        /\ result = rerun.result

\* A scored posting whose normalized semantic score lies below the default
\* threshold 0.75 of the first run and not below the threshold of the
\* second run.
C24_Witness ==
    /\ SecondRunOver("threshold")
    /\ mpc = "returned"
    /\ frame.path = "scored"
    /\ result.final_score > 0
    /\ ~RLeq(DefaultSettings.SEMANTIC_THRESHOLD, frame.normalized_semantic_score)
    /\ RLeq(settings.SEMANTIC_THRESHOLD, frame.normalized_semantic_score)

\* C25: the result of match_job_to_resume depends neither on the resume's
\* skills list nor on the posting's title: a second run that differs from
\* the first only in resume.skills, or only in the posting's title, returns
\* as the first one did, with the same final_score, keyword_score,
\* semantic_score and matched_keywords.
C25_ResultIndependentOfSkillsAndTitle ==
    (SecondRunOver("skills") \/ SecondRunOver("title")) =>
        /\ mpc = rerun.outcome
        /\ mpc = "returned" => result = rerun.result

\* The term stands in the text with no word character right before it and
\* none right after it.
OccursAsWholeWord(term, text) ==
    \E s \in 1..(Len(text) - Len(term) + 1) :
        LET e == s + Len(term) - 1
        IN /\ SubSeq(text, s, e) = term
           /\ s = 1 \/ ~IsWordChar(text[s - 1])
           /\ e = Len(text) \/ ~IsWordChar(text[e + 1])

\* C23: extract_skills returns a duplicate-free list of entries of the
\* lower-cased skill lexicon, and an entry is returned only if it occurs in
\* the lower-cased text as a whole word, not merely as a part of a longer
\* word.
C23_SkillsAreWholeWordLexiconTerms ==
    ev.op = "extract_skills" =>
        /\ \A i, j \in 1..Len(ev.value) : ev.value[i] = ev.value[j] => i = j
        /\ \A i \in 1..Len(ev.value) :
              /\ ev.value[i] \in Range(spelled_skills_lower)
              /\ OccursAsWholeWord(ev.value[i], LowerChars(ev.text))

====
